---- MODULE Spec2Model ----
(***************************************************************************)
(* BME280 driver, SPI transport (src/src/spi.rs).                          *)
(*                                                                         *)
(* The model has the device handle BME280 { common: BME280Common {         *)
(* interface: SPIInterface { spi }, calibration } }, the register-access   *)
(* functions of SPIInterface, and the three delegating entry points init,  *)
(* init_with_config and measure.  The SPI device behind the handle is a    *)
(* recording bus: it logs every transfer it is asked to make and answers   *)
(* with a response chosen by the environment.  BME280Common::init and      *)
(* BME280Common::measure live in the crate root, which is not among the    *)
(* source files; they are modelled from the specification text.            *)
(***************************************************************************)
EXTENDS Integers, Sequences, FiniteSets, TLC

VARIABLES
    spi,      \* the SPI device owned by SPIInterface: the log of its transfers
    bme280,   \* the device handle; [built |-> FALSE] before BME280::new
    issued,   \* register-access calls made on SPIInterface, in call order
    calls     \* calls made by the user of the crate, in call order

vars == <<spi, bme280, issued, calls>>

----------------------------------------------------------------------------
(* Bounds of the model *)

\* number of calls the user makes on one handle (new included)
MaxCalls == 3

(* Lengths of the burst blocks, imported from the crate root (spi.rs:9);   *)
(* the values are the block sizes of the sensor's register map.            *)
BME280_P_T_H_DATA_LEN == 8
BME280_P_T_CALIB_DATA_LEN == 26
BME280_H_CALIB_DATA_LEN == 7

Byte == 0 .. 255

\* register addresses and payloads the user passes in Spec: below and above 0x80
Registers == {16, 208}
Payloads == {39, 182}

\* what the bus can fail with (the SPIE of SpiDevice<Error = SPIE>)
BusErrors == {"Disconnected", "Overrun"}

(* A response of the bus to one transfer.  On success the whole inbound    *)
(* buffer is filled with seed, seed+1, ... (mod 256); on failure only the  *)
(* first `partial` bytes have been stored when the error is returned.      *)
OkResponses ==
    {[ok |-> TRUE, err |-> "none", seed |-> s, partial |-> 0] : s \in {75, 254}}

ErrResponses ==
    {[ok |-> FALSE, err |-> e, seed |-> 75,
      partial |-> IF e = "Overrun" THEN 1 ELSE 0] : e \in BusErrors}

Responses == OkResponses \cup ErrResponses

\* a write passes an empty inbound buffer, so one successful response is enough
WriteResponses == {r \in OkResponses : r.seed = 75} \cup ErrResponses

----------------------------------------------------------------------------
(* Values *)

Min(a, b) == IF a < b THEN a ELSE b

\* [0; n]
Zeros(n) == [i \in 1 .. n |-> 0]

\* Result<T, E>
Ok(v) == [tag |-> "Ok", val |-> v]
Err(e) == [tag |-> "Err", err |-> e]

\* Error::Bus(e) of the crate root and SPIError::SPI(e)
Error_Bus(e) == [kind |-> "Bus", inner |-> e]
SPIError_SPI(e) == [kind |-> "SPI", inner |-> e]

\* Option<CalibrationData>
None == [some |-> FALSE]
Some(v) == [some |-> TRUE, val |-> v]

\* register & 0x7f on a u8
RECURSIVE BitAnd(_, _)
BitAnd(a, b) ==
    IF a = 0 \/ b = 0 THEN 0
    ELSE (IF a % 2 = 1 /\ b % 2 = 1 THEN 1 ELSE 0) + 2 * BitAnd(a \div 2, b \div 2)

----------------------------------------------------------------------------
(* The bus: SpiDevice::transfer(read, write).  One call is one transaction. *)
(* It records the outbound words and the size of the inbound buffer, and    *)
(* stores the inbound words into `read`; the log keeps them too.            *)

spi_transfer(dev, read, write, resp) ==
    LET n == IF resp.ok THEN Len(read) ELSE Min(resp.partial, Len(read))
        stored == [i \in 1 .. Len(read) |->
                      IF i <= n THEN (resp.seed + i - 1) % 256 ELSE read[i]]
    IN  [spi  |-> Append(dev, [write |-> write, read_len |-> Len(read),
                               read |-> stored, err |-> resp.err]),
         err  |-> resp.err,
         read |-> stored]

----------------------------------------------------------------------------
(* SPIInterface: register access functions for SPI.                        *)
(* Each returns [spi |-> the device afterwards, result |-> the Result].    *)

\* .map_err(|e| Error::Bus(SPIError::SPI(e)))?; Ok(()) on the outcome t of a
\* transfer; `data` is the caller's buffer after the transfer
map_err(t) ==
    [spi    |-> t.spi,
     result |-> IF t.err # "none" THEN Err(Error_Bus(SPIError_SPI(t.err)))
                ELSE Ok("unit"),
     data   |-> t.read]

\* a failed transfer is tried once more
read_any_register_retry(dev, register, data, resp) ==
    LET t == spi_transfer(dev, data, <<register>>, resp)
    IN  IF t.err # "none"
        THEN map_err(spi_transfer(t.spi, data, <<register>>, resp))
        ELSE map_err(t)

\* the error of the transfer is dropped
read_any_register_swallow(dev, register, data, resp) ==
    [map_err(spi_transfer(dev, data, <<register>>, resp)) EXCEPT !.result = Ok("unit")]

\* after a failed transfer the next read clocks out a dummy byte first
read_any_register_sticky(dev, register, data, resp) ==
    map_err(spi_transfer(dev, data,
                         IF Len(dev) > 0 /\ dev[Len(dev)].err # "none"
                         THEN <<0, register>> ELSE <<register>>,
                         resp))

read_any_register(dev, register, data, resp) ==
    map_err(spi_transfer(dev, data, <<register>>, resp))

\* the first inbound byte is taken for the echo of the address and skipped
read_register_skip(dev, register, resp) ==
    LET r == read_any_register(dev, register, Zeros(2), resp)
    IN  IF r.result.tag = "Err"
        THEN [spi |-> r.spi, result |-> r.result]
        ELSE [spi |-> r.spi, result |-> Ok(r.data[2])]

read_register(dev, register, resp) ==
    LET r == read_any_register(dev, register, Zeros(1), resp)
    IN  IF r.result.tag = "Err"
        THEN [spi |-> r.spi, result |-> r.result]
        ELSE [spi |-> r.spi, result |-> Ok(r.data[1])]

read_data(dev, register, resp) ==
    LET r == read_any_register(dev, register, Zeros(BME280_P_T_H_DATA_LEN), resp)
    IN  IF r.result.tag = "Err"
        THEN [spi |-> r.spi, result |-> r.result]
        ELSE [spi |-> r.spi, result |-> Ok(r.data)]

\* the buffer is sized with the length of the measurement block
read_pt_calib_data_short(dev, register, resp) ==
    LET r == read_any_register(dev, register, Zeros(BME280_P_T_H_DATA_LEN), resp)
    IN  IF r.result.tag = "Err"
        THEN [spi |-> r.spi, result |-> r.result]
        ELSE [spi |-> r.spi, result |-> Ok(r.data)]

read_pt_calib_data(dev, register, resp) ==
    LET r == read_any_register(dev, register, Zeros(BME280_P_T_CALIB_DATA_LEN), resp)
    IN  IF r.result.tag = "Err"
        THEN [spi |-> r.spi, result |-> r.result]
        ELSE [spi |-> r.spi, result |-> Ok(r.data)]

read_h_calib_data(dev, register, resp) ==
    LET r == read_any_register(dev, register, Zeros(BME280_H_CALIB_DATA_LEN), resp)
    IN  IF r.result.tag = "Err"
        THEN [spi |-> r.spi, result |-> r.result]
        ELSE [spi |-> r.spi, result |-> Ok(r.data)]

\* the register byte is sent as passed, the top bit not cleared
write_register_nomask(dev, register, payload, resp) ==
    LET transfer == <<register, payload>>
    IN  map_err(spi_transfer(dev, <<>>, transfer, resp))

\* the write is put in front of the transfers already made
write_register_front(dev, register, payload, resp) ==
    LET transfer == <<BitAnd(register, 127), payload>>
    IN  [map_err(spi_transfer(<<>>, <<>>, transfer, resp)) EXCEPT !.spi = @ \o dev]

write_register(dev, register, payload, resp) ==
    LET transfer == <<BitAnd(register, 127), payload>>
    IN  map_err(spi_transfer(dev, <<>>, transfer, resp))

\* the call `op` and its result r, appended to the calls made on w = [spi, issued]
Logged(w, op, register, payload, r) ==
    [spi    |-> r.spi,
     issued |-> Append(w.issued, [op |-> op, register |-> register,
                                  payload |-> payload, result |-> r.result])]

\* impl Interface for SPIInterface: the call `op` with its arguments, made on
\* w = [spi, issued]
Invoke(w, op, register, payload, resp) ==
    Logged(w, op, register, payload,
           CASE op = "read_register" -> read_register(w.spi, register, resp)
             [] op = "read_data" -> read_data(w.spi, register, resp)
             [] op = "read_pt_calib_data" -> read_pt_calib_data(w.spi, register, resp)
             [] op = "read_h_calib_data" -> read_h_calib_data(w.spi, register, resp)
             [] op = "write_register" ->
                    write_register(w.spi, register, payload, resp))

----------------------------------------------------------------------------
(* The device engine, BME280Common, of the crate root.  Its code is not    *)
(* among the source files; it is modelled from the specification: it       *)
(* reaches the sensor only through the register-access functions, a failed *)
(* register access aborts the operation with that error, initialization    *)
(* loads both calibration blocks and applies the configuration, and the    *)
(* calibration is stored only when initialization has succeeded.           *)

Configuration_default ==
    [temperature_oversampling |-> "Oversampling1X",
     pressure_oversampling    |-> "Oversampling1X",
     humidity_oversampling    |-> "Oversampling1X",
     iir_filter               |-> "Off"]

with_temperature_oversampling(c, o) == [c EXCEPT !.temperature_oversampling = o]
with_pressure_oversampling(c, o) == [c EXCEPT !.pressure_oversampling = o]
with_humidity_oversampling(c, o) == [c EXCEPT !.humidity_oversampling = o]
with_iir_filter(c, f) == [c EXCEPT !.iir_filter = f]

\* the register encodings of the settings
OversamplingBits(o) ==
    CASE o = "Skipped" -> 0 [] o = "Oversampling1X" -> 1 [] o = "Oversampling2X" -> 2
      [] o = "Oversampling4X" -> 3 [] o = "Oversampling8X" -> 4
      [] o = "Oversampling16X" -> 5

IIRFilterBits(f) ==
    CASE f = "Off" -> 0 [] f = "Coefficient2" -> 1 [] f = "Coefficient4" -> 2
      [] f = "Coefficient8" -> 3 [] f = "Coefficient16" -> 4

Last(q) == q[Len(q)]

\* one register access of an engine call that began after the `from`-th entry of
\* issued: nothing more is done once an access of the call has failed
Step(w, from, o, resp) ==
    IF Len(w.issued) > from /\ Last(w.issued).result.tag = "Err" THEN w
    ELSE Invoke(w, o.op, o.register, o.payload, resp)

\* the register accesses of `ops`, in order, up to the first failure;
\* respAt[i] is the bus's response to the i-th
RunOps(w, ops, respAt) ==
    LET W[i \in 0 .. Len(ops)] ==
            IF i = 0 THEN w ELSE Step(W[i - 1], Len(w.issued), ops[i], respAt[i])
    IN  W[Len(ops)]

InitOps(config) ==
    <<[op |-> "read_pt_calib_data", register |-> 136, payload |-> 0],
      [op |-> "read_h_calib_data", register |-> 225, payload |-> 0],
      [op |-> "write_register", register |-> 242,
       payload |-> OversamplingBits(config.humidity_oversampling)],
      [op |-> "write_register", register |-> 244,
       payload |-> (OversamplingBits(config.temperature_oversampling) * 32
                    + OversamplingBits(config.pressure_oversampling) * 4) % 256],
      [op |-> "write_register", register |-> 245,
       payload |-> (IIRFilterBits(config.iir_filter) * 4) % 256]>>

MeasureOps ==
    <<[op |-> "write_register", register |-> 244, payload |-> 1],
      [op |-> "read_data", register |-> 247, payload |-> 0]>>

\* the end of init: the calibration is stored when every access has succeeded
init_done(c, config, r) ==
    IF Last(r.issued).result.tag = "Err"
    THEN [spi |-> r.spi, issued |-> r.issued, calibration |-> c.calibration,
          config |-> config, result |-> Last(r.issued).result]
    ELSE [spi |-> r.spi, issued |-> r.issued,
          calibration |-> Some([pt |-> r.issued[Len(c.issued) + 1].result.val,
                                h  |-> r.issued[Len(c.issued) + 2].result.val]),
          config |-> config, result |-> Ok("unit")]

\* BME280Common::init(delay, config) on c = [spi, issued, calibration]
common_init(c, config, respAt) ==
    init_done(c, config,
              RunOps([spi |-> c.spi, issued |-> c.issued], InitOps(config), respAt))

\* the end of measure: the raw block is the measurement
measure_done(c, r) ==
    [spi |-> r.spi, issued |-> r.issued, calibration |-> c.calibration,
     config |-> [none |-> TRUE],
     result |-> IF Last(r.issued).result.tag = "Err" THEN Last(r.issued).result
                ELSE IF ~c.calibration.some THEN Err([kind |-> "NoCalibrationData"])
                ELSE Ok([raw |-> Last(r.issued).result.val])]

\* BME280Common::measure(delay) on c = [spi, issued, calibration]
common_measure(c, respAt) ==
    measure_done(c, RunOps([spi |-> c.spi, issued |-> c.issued], MeasureOps, respAt))

----------------------------------------------------------------------------
(* BME280<SPI>: the device handle *)

\* the chip id is read when the handle is made
new_probe(dev) ==
    LET r == read_register(dev, 208, CHOOSE x \in OkResponses : x.seed = 75)
    IN  [spi |-> r.spi, result |-> Ok([calibration |-> None])]

new(dev) ==
    [spi |-> dev, result |-> Ok([calibration |-> None])]

\* the oversampling of pressure and temperature are exchanged
init_swapped(c, respAt) ==
    common_init(c,
        with_iir_filter(
            with_temperature_oversampling(
                with_pressure_oversampling(
                    with_humidity_oversampling(Configuration_default, "Oversampling1X"),
                    "Oversampling2X"),
                "Oversampling16X"),
            "Coefficient16"),
        respAt)

init(c, respAt) ==
    common_init(c,
        with_iir_filter(
            with_temperature_oversampling(
                with_pressure_oversampling(
                    with_humidity_oversampling(Configuration_default, "Oversampling1X"),
                    "Oversampling16X"),
                "Oversampling2X"),
            "Coefficient16"),
        respAt)

init_with_config(c, config, respAt) == common_init(c, config, respAt)

measure(c, respAt) == common_measure(c, respAt)

----------------------------------------------------------------------------
(* The calls of the user.  Each action is one whole call. *)

\* the entry of `calls` for a call that made the register accesses after `from`
Call(name, config, env, result, from, to) ==
    [call |-> name, config |-> config, env |-> env, result |-> result,
     first |-> from + 1, last |-> to]

NoConfig == [none |-> TRUE]
NoEnv == [none |-> TRUE]

\* the bus's responses to the transfers of one engine call: the failAt-th fails
EngineEnvs ==
    {[failAt |-> k, good |-> g, bad |-> b] :
        k \in 0 .. 5, g \in {r \in OkResponses : r.seed = 254}, b \in ErrResponses}

RespAt(env) == [i \in 1 .. 5 |-> IF i = env.failAt THEN env.bad ELSE env.good]

\* configurations the user passes to init_with_config
Configurations ==
    {[temperature_oversampling |-> "Oversampling2X",
      pressure_oversampling    |-> "Oversampling16X",
      humidity_oversampling    |-> "Oversampling1X",
      iir_filter               |-> "Coefficient16"],
     [temperature_oversampling |-> "Oversampling16X",
      pressure_oversampling    |-> "Skipped",
      humidity_oversampling    |-> "Oversampling4X",
      iir_filter               |-> "Off"]}

New ==
    /\ ~bme280.built
    /\ LET r == new(spi)
       IN  /\ spi' = r.spi
           /\ bme280' = [built |-> TRUE, calibration |-> r.result.val.calibration]
           /\ calls' = Append(calls, Call("new", NoConfig, NoEnv, Ok("BME280"),
                                          Len(issued), Len(issued)))
    /\ UNCHANGED issued

Engine(name, r, env) ==
    /\ spi' = r.spi
    /\ issued' = r.issued
    /\ bme280' = [bme280 EXCEPT !.calibration = r.calibration]
    /\ calls' = Append(calls, Call(name, r.config, env, r.result,
                                   Len(issued), Len(r.issued)))

Common == [spi |-> spi, issued |-> issued, calibration |-> bme280.calibration]

DoInit ==
    /\ bme280.built
    /\ \E env \in EngineEnvs : Engine("init", init(Common, RespAt(env)), env)

DoInitWithConfig ==
    /\ bme280.built
    /\ \E env \in EngineEnvs, config \in Configurations :
          Engine("init_with_config",
                 init_with_config(Common, config, RespAt(env)), env)

DoMeasure ==
    /\ bme280.built
    /\ \E env \in {e \in EngineEnvs : e.failAt <= 2} :
          Engine("measure", measure(Common, RespAt(env)), env)

\* the user's call `op` has made the register access that led to r = [spi, issued]
Accessed(op, r) ==
    /\ spi' = r.spi
    /\ issued' = r.issued
    /\ calls' = Append(calls, Call(op, NoConfig, NoEnv, Last(r.issued).result,
                                   Len(issued), Len(r.issued)))
    /\ UNCHANGED bme280

\* one register access made directly on the interface
Direct(op, register, payload, resp) ==
    /\ bme280.built
    /\ Accessed(op, Invoke([spi |-> spi, issued |-> issued], op, register, payload,
                           resp))

ReadRegister(Regs) ==
    \E register \in Regs, resp \in Responses : Direct("read_register", register, 0, resp)

ReadData(Regs) ==
    \E register \in Regs, resp \in Responses : Direct("read_data", register, 0, resp)

ReadPtCalibData(Regs) ==
    \E register \in Regs, resp \in Responses :
        Direct("read_pt_calib_data", register, 0, resp)

ReadHCalibData(Regs) ==
    \E register \in Regs, resp \in Responses :
        Direct("read_h_calib_data", register, 0, resp)

WriteRegister(Regs, Vals) ==
    \E register \in Regs, payload \in Vals, resp \in WriteResponses :
        Direct("write_register", register, payload, resp)

----------------------------------------------------------------------------
(* Spec: a user makes up to MaxCalls calls on one handle, new first. *)

Init ==
    /\ spi = <<>>
    /\ bme280 = [built |-> FALSE]
    /\ issued = <<>>
    /\ calls = <<>>

CanCall == Len(calls) < MaxCalls

CallNew == CanCall /\ New
CallInit == CanCall /\ DoInit
CallInitWithConfig == CanCall /\ DoInitWithConfig
CallMeasure == CanCall /\ DoMeasure
CallReadRegister == CanCall /\ ReadRegister(Registers)
CallReadData == CanCall /\ ReadData(Registers)
CallReadPtCalibData == CanCall /\ ReadPtCalibData(Registers)
CallReadHCalibData == CanCall /\ ReadHCalibData(Registers)
CallWriteRegister == CanCall /\ WriteRegister(Registers, Payloads)

Next ==
    \/ CallNew
    \/ CallInit
    \/ CallInitWithConfig
    \/ CallMeasure
    \/ CallReadRegister
    \/ CallReadData
    \/ CallReadPtCalibData
    \/ CallReadHCalibData
    \/ CallWriteRegister

Spec == Init /\ [][Next]_vars

(* SpecWide: one register access on a fresh interface, over every 8-bit    *)
(* register address and every 8-bit payload.                               *)

InitWide ==
    /\ spi = <<>>
    /\ bme280 = [built |-> TRUE, calibration |-> None]
    /\ issued = <<>>
    /\ calls = <<>>

Fresh == issued = <<>>

WideReadRegister == Fresh /\ ReadRegister(Byte)
WideReadData == Fresh /\ ReadData(Byte)
WideReadPtCalibData == Fresh /\ ReadPtCalibData(Byte)
WideReadHCalibData == Fresh /\ ReadHCalibData(Byte)
WideWriteRegister == Fresh /\ WriteRegister(Byte, Byte)

NextWide ==
    \/ WideReadRegister
    \/ WideReadData
    \/ WideReadPtCalibData
    \/ WideReadHCalibData
    \/ WideWriteRegister

SpecWide == InitWide /\ [][NextWide]_vars

----------------------------------------------------------------------------
(* Properties *)

ReadOps == {"read_register", "read_data", "read_pt_calib_data", "read_h_calib_data"}

\* the length class of a read
LengthClass(op) ==
    CASE op = "read_register" -> 1
      [] op = "read_data" -> BME280_P_T_H_DATA_LEN
      [] op = "read_pt_calib_data" -> BME280_P_T_CALIB_DATA_LEN
      [] op = "read_h_calib_data" -> BME280_H_CALIB_DATA_LEN

\* a | b on bytes
RECURSIVE BitOr(_, _)
BitOr(a, b) ==
    IF a = 0 THEN b
    ELSE IF b = 0 THEN a
    ELSE (IF a % 2 = 1 \/ b % 2 = 1 THEN 1 ELSE 0) + 2 * BitOr(a \div 2, b \div 2)

\* a byte with its most significant bit cleared
ClearTop(a) == IF a >= 128 THEN a - 128 ELSE a

\* the register accesses that have a transfer at the same place of the bus log
Paired == DOMAIN issued \cap DOMAIN spi

\* same call, same arguments
SameCall(a, b) == a.op = b.op /\ a.register = b.register /\ a.payload = b.payload

(* C1: every read called with a register address A in 0..0x7F sends the   *)
(* one-byte outbound frame A | 0x80: the adapter sets the read marker.     *)
C1_ReadMarkerSetByAdapter ==
    \A i \in Paired :
        (issued[i].op \in ReadOps /\ issued[i].register <= 127)
            => spi[i].write = <<BitOr(issued[i].register, 128)>>

(* C2: write_register(A, V) sends the outbound frame [A & 0x7F, V] and     *)
(* passes an empty inbound buffer, for every 8-bit A and V.                *)
C2_WriteFrame ==
    \A i \in DOMAIN issued :
        issued[i].op = "write_register"
            => /\ i \in DOMAIN spi
               /\ spi[i].write = <<ClearTop(issued[i].register), issued[i].payload>>
               /\ spi[i].read_len = 0
               /\ spi[i].read = <<>>
               /\ issued[i].result.tag = "Ok" => issued[i].result.val = "unit"

C2_Witness ==
    \E i \in Paired :
        /\ issued[i].op = "write_register"
        /\ issued[i].register = 244
        /\ issued[i].payload = 39
        /\ issued[i].result.tag = "Ok"
        /\ spi[i].write = <<116, 39>>

(* C3: a transfer that fails with e makes the register access return      *)
(* exactly Err(Error::Bus(SPIError::SPI(e))): e unchanged and no data,     *)
(* also when the bus had stored part of the inbound bytes; a call made     *)
(* directly on the interface hands that result to the user.                *)
C3_BusErrorWrapped ==
    /\ \A i \in DOMAIN spi :
          spi[i].err # "none"
              => /\ i \in DOMAIN issued
                 /\ issued[i].result =
                        [tag |-> "Err",
                         err |-> [kind |-> "Bus",
                                  inner |-> [kind |-> "SPI", inner |-> spi[i].err]]]
    /\ \A k \in DOMAIN calls :
          (calls[k].call \in ReadOps \cup {"write_register"}
              /\ calls[k].last \in DOMAIN issued)
              => calls[k].result = issued[calls[k].last].result

C3_Witness ==
    \E i \in Paired :
        /\ issued[i].op = "read_data"
        /\ spi[i].err = "Overrun"
        /\ spi[i].read[1] = 75
        /\ issued[i].result.tag = "Err"
        /\ \E j \in Paired : issued[j].op = "write_register"
                               /\ spi[j].err = "Disconnected"

(* C4: every read asks for an inbound buffer of exactly the length of its  *)
(* class, whatever the register address, and sends a one-byte frame.       *)
C4_ReadLength ==
    \A i \in DOMAIN issued :
        issued[i].op \in ReadOps
            => /\ i \in DOMAIN spi
               /\ spi[i].read_len = LengthClass(issued[i].op)
               /\ Len(spi[i].read) = LengthClass(issued[i].op)
               /\ Len(spi[i].write) = 1

C4_Witness ==
    \E i \in Paired :
        /\ issued[i].op = "read_pt_calib_data"
        /\ issued[i].register = 247
        /\ spi[i].read_len = 26

(* C5: every register access makes exactly one bus transfer, failed or    *)
(* not: after n accesses the bus has seen n transfers.                     *)
C5_OneTransferPerAccess ==
    Len(spi) = Len(issued)

C5_Witness ==
    /\ Len(issued) >= 2
    /\ Len(spi) = Len(issued)
    /\ \E i \in Paired : spi[i].err # "none" /\ issued[i].op \in ReadOps
    /\ \E i \in Paired : spi[i].err = "none"

(* C6: a successful read returns exactly what the bus stored in the        *)
(* inbound buffer: read_register the byte at position 0, a block read all  *)
(* the bytes of its length class, in order.                                *)
C6_ReadReturnsInbound ==
    \A i \in DOMAIN issued :
        (issued[i].op \in ReadOps /\ issued[i].result.tag = "Ok")
            => /\ i \in DOMAIN spi
               /\ IF issued[i].op = "read_register"
                  THEN issued[i].result.val = spi[i].read[1]
                  ELSE /\ issued[i].result.val = spi[i].read
                       /\ Len(issued[i].result.val) = LengthClass(issued[i].op)

C6_Witness ==
    /\ \E i \in Paired :
          /\ issued[i].op = "read_register"
          /\ issued[i].register = 208
          /\ issued[i].result = [tag |-> "Ok", val |-> 75]
    /\ \E i \in Paired :
          /\ issued[i].op = "read_data"
          /\ issued[i].result.tag = "Ok"
          /\ issued[i].result.val = <<254, 255, 0, 1, 2, 3, 4, 5>>

FrameOf(a, t) ==
    /\ ClearTop(t.write[1]) = ClearTop(a.register)
    /\ (t.err = "none") <=> (a.result.tag = "Ok")
    /\ IF a.op = "write_register"
       THEN Len(t.write) = 2 /\ t.write[2] = a.payload /\ t.read_len = 0
       ELSE Len(t.write) = 1 /\ t.read_len = LengthClass(a.op)

(* C8: the bus sees the transfers in the order of the calls: the i-th      *)
(* transfer is that of the i-th register access, and a call adds its       *)
(* transfers after all those made before, which stay as they were.         *)
C8_TransfersInCallOrder ==
    [][ /\ Len(spi') >= Len(spi)
        /\ SubSeq(spi', 1, Len(spi)) = spi
        /\ Len(issued') >= Len(issued)
        /\ SubSeq(issued', 1, Len(issued)) = issued
        /\ \A i \in DOMAIN issued' :
              i \in DOMAIN spi' /\ FrameOf(issued'[i], spi'[i]) ]_vars

C8_Witness ==
    /\ Len(issued) = 2
    /\ Len(spi) = 2
    /\ issued[1].op = "write_register" /\ issued[1].register = 208
    /\ issued[1].payload = 39
    /\ issued[2].op = "read_data" /\ issued[2].register = 16
    /\ spi[1].write = <<80, 39>>
    /\ spi[2].write = <<16>>

\* the default configuration of init as documented
C0 ==
    [temperature_oversampling |-> "Oversampling2X",
     pressure_oversampling    |-> "Oversampling16X",
     humidity_oversampling    |-> "Oversampling1X",
     iir_filter               |-> "Coefficient16"]

(* C9: init(delay) does what init_with_config(delay, C0) does from the     *)
(* same handle and bus, C0 being temperature 2x, pressure 16x, humidity 1x *)
(* and IIR coefficient 16: same configuration passed to the engine, same   *)
(* transfers, same result.                                                 *)
C9_InitIsInitWithDefault ==
    [][ (Len(calls') = Len(calls) + 1 /\ Last(calls').call = "init")
            => /\ Last(calls').config = C0
               /\ spi' = init_with_config(Common, C0, RespAt(Last(calls').env)).spi
               /\ issued' =
                      init_with_config(Common, C0, RespAt(Last(calls').env)).issued
               /\ bme280'.calibration =
                      init_with_config(Common, C0, RespAt(Last(calls').env)).calibration
               /\ Last(calls').result =
                      init_with_config(Common, C0, RespAt(Last(calls').env)).result
      ]_vars

C9_Witness ==
    /\ Len(calls) >= 2
    /\ Last(calls).call = "init"
    /\ Last(calls).result.tag = "Ok"
    /\ bme280.calibration.some
    /\ Last(spi).write = <<117, 16>>
    /\ spi[Len(spi) - 1].write = <<116, 84>>
    /\ spi[Len(spi) - 2].write = <<114, 1>>

(* C10: the adapter keeps no state across calls: two register accesses of  *)
(* the same kind with the same arguments send the same outbound frame and  *)
(* ask for the same inbound length, whatever was called in between and     *)
(* whether the transfers before succeeded or failed.                       *)
C10_Stateless ==
    \A i \in Paired : \A j \in Paired :
        SameCall(issued[i], issued[j])
            => /\ spi[i].write = spi[j].write
               /\ spi[i].read_len = spi[j].read_len

C10_Witness ==
    /\ Len(issued) >= 2
    /\ Len(spi) = Len(issued)
    /\ SameCall(issued[1], issued[2])
    /\ issued[1].op \in ReadOps
    /\ spi[1].err # "none"
    /\ spi[2].err = "none"
    /\ spi[2].write = spi[1].write

====
